---- MODULE Spec2Model ----
(***************************************************************************)
(* Model of the Test Case Generator front-end:                             *)
(*   - components/FileTree.jsx : buildTree, toggleNode/toggleDir, the      *)
(*     selection map (selectFile), hasSelection, handleSummarize           *)
(*   - components/FileTree.jsx : loadFiles, the loading flag and the rows  *)
(*     TreeNode renders                                                    *)
(*   - lib/backend.js          : argument validation of the gateway        *)
(*     functions, normalizeAxiosError, flattenFiles, the payload defaults, *)
(*     summarizeTests and checkBackendHealth                               *)
(*   - app/page.jsx            : the health ping effect                    *)
(*                                                                         *)
(* A JavaScript string is modelled as a sequence of characters (each a     *)
(* one-token TLA+ string), so that split('/'), template concatenation and  *)
(* trim() are computed, not assumed.                                       *)
(***************************************************************************)
EXTENDS Naturals, Sequences, FiniteSets, TLC

VARIABLES
    files,          \* buildTree: the flat entries handed to buildTree
    tree,           \* FileTree state `tree` (useState([]))
    phase,          \* "input" before buildTree ran, "built" after, "toggled" after a toggleDir
    selected,       \* FileTree state `selected`: JS object, keys in insertion order
    lastSet,        \* history: per path, the value of the most recent selectFile call
    summaryCalls,   \* the arguments of the onGenerateSummaries calls made so far
    gwCall,         \* gateway: the function called and its arguments, or the idle marker
    gwHttp,         \* gateway: the HTTP requests issued by the current call
    gwResult,       \* gateway: how the current call ended
    gwThrown,       \* history: the value the HTTP layer rejected with
    gwAnswers,      \* history: the answers of the HTTP layer to the current call's requests
    hcBase,         \* checkBackendHealth: the module constant BASE
    hcUrls,         \* checkBackendHealth: the URLs probed so far, in order
    hcOutcomes,     \* history: how each finished probe ended
    hcResult,       \* checkBackendHealth: "idle", "running", "true", "false" or "throw"
    loading,        \* FileTree state `loading` (useState(false))
    error,          \* FileTree state `error` (useState(''))
    ldPending,      \* the fetchRepoFiles calls loadFiles is awaiting
    pgView,         \* HomePage: "none" before the effect ran, "live", "ended" after cleanup
    pgCancelled,    \* the effect's local `cancelled`
    pgTimer,        \* the interval set by the effect, or NoTimer
    pgInFlight,     \* the number of ping() calls awaiting checkBackendHealth
    connected,      \* HomePage state `connected` (useState(false))
    pgStarted,      \* history: the number of health checks started
    pgTicks,        \* history: the number of timer ticks delivered
    pgDropped,      \* history: the results that arrived and were not written
    pgAtEnd         \* history: `connected` and pgStarted when the view ended

vars ==
    <<files, tree, phase, selected, lastSet, summaryCalls, gwCall, gwHttp, gwResult, gwThrown,
      gwAnswers,
      hcBase, hcUrls, hcOutcomes, hcResult, loading, error, ldPending,
      pgView, pgCancelled, pgTimer, pgInFlight, connected, pgStarted, pgTicks, pgDropped,
      pgAtEnd>>
treeVars == <<files, tree, phase>>
selVars == <<selected, lastSet, summaryCalls>>
gwVars == <<gwCall, gwHttp, gwResult, gwThrown, gwAnswers>>
hcVars == <<hcBase, hcUrls, hcOutcomes, hcResult>>
ldVars == <<loading, error, ldPending>>
pgVars ==
    <<pgView, pgCancelled, pgTimer, pgInFlight, connected, pgStarted, pgTicks, pgDropped,
      pgAtEnd>>
shellVars == <<hcVars, ldVars, pgVars>>

\* The gateway at rest: no function called, nothing returned, nothing thrown.
GwIdle == [fn |-> "idle"]
NoResult == [kind |-> "none"]
NothingThrown == [t |-> "nothing"]

\* The default of BASE (backend.js 3), character by character after the host.
DefaultBase == <<"http://localhost:8000", "/", "a", "p", "i", "/", "v", "1">>

\* No health check was started.
HealthIdle ==
    /\ hcBase = DefaultBase
    /\ hcUrls = <<>>
    /\ hcOutcomes = <<>>
    /\ hcResult = "idle"

\* loadFiles was never run.
LoadIdle ==
    /\ loading = FALSE
    /\ error = <<>>
    /\ ldPending = <<>>

NoTimer == [active |-> FALSE]
NotEnded == [ended |-> FALSE]

\* The page before its effect ran.
PageIdle ==
    /\ pgView = "none"
    /\ pgCancelled = FALSE
    /\ pgTimer = NoTimer
    /\ pgInFlight = 0
    /\ connected = FALSE
    /\ pgStarted = 0
    /\ pgTicks = 0
    /\ pgDropped = {}
    /\ pgAtEnd = NotEnded

\* The parts of the page outside the function or component under study, at rest.
ShellIdle == HealthIdle /\ LoadIdle /\ PageIdle

(***************************************************************************)
(* Bounds and input sets                                                   *)
(***************************************************************************)
MaxEntries == 2
MaxCalls == 1

\* Paths handed to buildTree: plain, nested, sharing a prefix, a file named
\* like a directory, and the unvalidated shapes (empty, leading, trailing and
\* double slash).
Paths ==
    { <<>>,
      <<"a">>,
      <<"b">>,
      <<"a", "/", "b">>,
      <<"a", "/", "c">>,
      <<"a", "/", "b", "/", "c">>,
      <<"b", "/", "a">>,
      <<"/", "a">>,
      <<"/", "a", "/", "b">>,
      <<"a", "/">>,
      <<"a", "/", "/", "b">>,
      <<"/", "/", "a">> }

Sizes == {10, 20}

FlatFileEntry == [path : Paths, size : Sizes]

FileLists == UNION { [1..n -> FlatFileEntry] : n \in 0..MaxEntries }

\* The paths a selection call may name.
SelPaths == { <<"a">>, <<"a", "/", "b">>, <<"a", "/", "c">> }

NeverSet == [p \in SelPaths |-> "never"]

\* A path no built node carries (toggleDir with a target matching nothing).
NoSuchPath == <<"z">>

(***************************************************************************)
(* String helpers                                                          *)
(***************************************************************************)
\* String.prototype.split('/'): one part more than there are separators.
RECURSIVE SplitFrom(_, _, _)
SplitFrom(s, i, cur) ==
    IF i > Len(s) THEN <<cur>>
    ELSE IF s[i] = "/" THEN <<cur>> \o SplitFrom(s, i + 1, <<>>)
    ELSE SplitFrom(s, i + 1, Append(cur, s[i]))

Split(s) == SplitFrom(s, 1, <<>>)

\* Array.prototype.join('/')
RECURSIVE JoinSlash(_)
JoinSlash(parts) ==
    IF Len(parts) = 0 THEN <<>>
    ELSE IF Len(parts) = 1 THEN parts[1]
    ELSE parts[1] \o <<"/">> \o JoinSlash(Tail(parts))

(***************************************************************************)
(* buildTree (FileTree.jsx 139-164)                                        *)
(***************************************************************************)
FileNode(name, path, size) ==
    [name |-> name, path |-> path, type |-> "file", size |-> size]

DirNode(name, path, children) ==
    [name |-> name, path |-> path, type |-> "dir", expanded |-> TRUE, children |-> children]

\* A find that never matches: every entry would get directories of its own.
FindDirNever(level, name) == 0

\* current.find(n => n.type === 'dir' && n.name === name): index of the first
\* match, 0 when there is none.
FindDir(level, name) ==
    LET hits == { k \in 1..Len(level) : level[k].type = "dir" /\ level[k].name = name }
    IN  IF hits = {} THEN 0 ELSE CHOOSE k \in hits : \A j \in hits : k <= j

\* A push that merges a file into an existing file node of the same name.
PushFileMerging(current, node) ==
    LET hits == { k \in 1..Len(current) :
                    current[k].type = "file" /\ current[k].name = node.name }
    IN  IF hits = {} THEN Append(current, node)
        ELSE [current EXCEPT ![CHOOSE k \in hits : TRUE] = node]

\* current.push({ name, path: currentPath, type: 'file', size: f.size })
PushFile(current, node) == Append(current, node)

\* currentPath = currentPath ? `${currentPath}/${name}` : name
NextPath(currentPath, name) ==
    IF currentPath # <<>> THEN currentPath \o <<"/">> \o name ELSE name

\* The body of the inner loop from index i on, on the forest level `current`.
RECURSIVE InsertParts(_, _, _, _, _)
InsertParts(current, parts, i, currentPath, size) ==
    LET name == parts[i]
        path == NextPath(currentPath, name)
    IN  IF i = Len(parts)
        THEN PushFile(current, FileNode(name, path, size))
        ELSE LET k == FindDir(current, name)
             IN  IF k = 0
                 THEN Append(current,
                             DirNode(name, path, InsertParts(<<>>, parts, i + 1, path, size)))
                 ELSE [current EXCEPT ![k].children =
                           InsertParts(current[k].children, parts, i + 1, path, size)]

\* One iteration of `for (const f of files)`.
InsertEntry(root, f) == InsertParts(root, Split(f.path), 1, <<>>, f.size)

RECURSIVE BuildFrom(_, _, _)
BuildFrom(root, fs, i) ==
    IF i > Len(fs) THEN root ELSE BuildFrom(InsertEntry(root, fs[i]), fs, i + 1)

buildTree(fs) == BuildFrom(<<>>, fs, 1)

(***************************************************************************)
(* toggleNode / toggleDir (FileTree.jsx 166-174, 82-84)                    *)
(***************************************************************************)
\* !node.expanded, where a missing field reads as undefined
NotExpanded(node) == IF "expanded" \in DOMAIN node THEN ~node.expanded ELSE TRUE

\* A flip that can only collapse.
FlipExpandedCollapseOnly(node) ==
    [f \in DOMAIN node \cup {"expanded"} |-> IF f = "expanded" THEN FALSE ELSE node[f]]

\* { ...node, expanded: !node.expanded }
FlipExpanded(node) ==
    [f \in DOMAIN node \cup {"expanded"} |->
        IF f = "expanded" THEN NotExpanded(node) ELSE node[f]]

\* A match on the path alone, whatever the node's type.
IsToggleTargetAnyType(node, path) == node.path = path

\* node.path === path && node.type === 'dir'
IsToggleTarget(node, path) == node.path = path /\ node.type = "dir"

RECURSIVE toggleNode(_, _)
toggleNode(node, path) ==
    IF IsToggleTarget(node, path)
    THEN FlipExpanded(node)
    ELSE IF node.type = "dir"
    THEN [node EXCEPT !.children =
              [c \in 1..Len(node.children) |-> toggleNode(node.children[c], path)]]
    ELSE node

\* setTree(prev => prev.map(n => toggleNode(n, path)))
toggleDir(forest, path) == [n \in 1..Len(forest) |-> toggleNode(forest[n], path)]

(***************************************************************************)
(* Tree observers used by the properties                                   *)
(***************************************************************************)
\* Every node of a forest with the names of its ancestors, depth first.
RECURSIVE Walk(_, _)
WalkNode(node, ancestors) ==
    <<[node |-> node, names |-> Append(ancestors, node.name)]>>
    \o (IF node.type = "dir" THEN Walk(node.children, Append(ancestors, node.name)) ELSE <<>>)

Walk(forest, ancestors) ==
    IF Len(forest) = 0 THEN <<>>
    ELSE WalkNode(forest[1], ancestors) \o Walk(Tail(forest), ancestors)

Nodes(forest) == Walk(forest, <<>>)

NodePaths(forest) ==
    LET nodes == Nodes(forest) IN { nodes[i].node.path : i \in 1..Len(nodes) }

TargetPaths(forest) == NodePaths(forest) \cup {NoSuchPath}

HasDirAt(forest, p) ==
    LET nodes == Nodes(forest)
    IN  \E i \in 1..Len(nodes) : nodes[i].node.type = "dir" /\ nodes[i].node.path = p

(***************************************************************************)
(* Specification of the tree functions                                     *)
(***************************************************************************)
InitTree ==
    /\ files \in FileLists
    /\ tree = <<>>
    /\ phase = "input"
    /\ selected = <<>>
    /\ lastSet = NeverSet
    /\ summaryCalls = <<>>
    /\ gwCall = GwIdle
    /\ gwHttp = <<>>
    /\ gwResult = NoResult
    /\ gwThrown = NothingThrown
    /\ gwAnswers = <<>>
    /\ ShellIdle

Build ==
    /\ phase = "input"
    /\ tree' = buildTree(files)
    /\ phase' = "built"
    /\ UNCHANGED <<files, selVars, gwVars, shellVars>>

ToggleDir(p) ==
    /\ phase # "input"
    /\ tree' = toggleDir(tree, p)
    /\ phase' = "toggled"
    /\ UNCHANGED <<files, selVars, gwVars, shellVars>>

NextTree ==
    \/ Build
    \/ \E p \in TargetPaths(tree) : ToggleDir(p)

SpecTree == InitTree /\ [][NextTree]_vars

(***************************************************************************)
(* Properties of buildTree and toggleDir (checked under SpecTree)          *)
(***************************************************************************)
Count(seq, x) == Cardinality({ i \in 1..Len(seq) : seq[i] = x })

SameBag(s, t) ==
    /\ Len(s) = Len(t)
    /\ \A i \in 1..Len(s) : Count(s, s[i]) = Count(t, s[i])

FileIndexes(forest) ==
    LET nodes == Nodes(forest) IN { i \in 1..Len(nodes) : nodes[i].node.type = "file" }

DirIndexes(forest) ==
    LET nodes == Nodes(forest) IN { i \in 1..Len(nodes) : nodes[i].node.type = "dir" }

Expanded(forest, i) == Nodes(forest)[i].node.expanded

RECURSIVE SelectFiles(_)
SelectFiles(walk) ==
    IF Len(walk) = 0 THEN <<>>
    ELSE (IF walk[1].node.type = "file" THEN <<walk[1]>> ELSE <<>>) \o SelectFiles(Tail(walk))

RECURSIVE SelectDirs(_)
SelectDirs(walk) ==
    IF Len(walk) = 0 THEN <<>>
    ELSE (IF walk[1].node.type = "dir" THEN <<walk[1]>> ELSE <<>>) \o SelectDirs(Tail(walk))

\* The file nodes of a forest as flat entries: the path rebuilt from the names
\* of the ancestors and the node, and the node's size.
RebuiltEntries(forest) ==
    LET fs == SelectFiles(Nodes(forest))
    IN  [i \in 1..Len(fs) |-> [path |-> JoinSlash(fs[i].names), size |-> fs[i].node.size]]

\* The same, reading each file node's `path` field.
PathFieldEntries(forest) ==
    LET fs == SelectFiles(Nodes(forest))
    IN  [i \in 1..Len(fs) |-> [path |-> fs[i].node.path, size |-> fs[i].node.size]]

\* C1: a built forest holds exactly one file node per flat entry (repeated
\* paths included), carrying that entry's size, and the '/'-join of the names
\* of its ancestors and its own name is the entry's path.
C1_OneFileNodePerEntry ==
    phase # "input" =>
        /\ Cardinality(FileIndexes(tree)) = Len(files)
        /\ SameBag(RebuiltEntries(tree), files)

C1_Witness ==
    /\ phase = "built"
    /\ Len(files) = 2
    /\ files[1].path = files[2].path
    /\ files[1].size # files[2].size
    /\ Len(Split(files[1].path)) > 1
    /\ Cardinality(FileIndexes(tree)) = 2

\* C2: in a built forest the `path` field of every node is the '/'-join of the
\* names of its ancestors and its own name, and the `path` fields of the file
\* nodes are the paths of the flat entries, also for entries with an empty
\* path segment.
C2_PathFieldIsJoinOfNames ==
    phase # "input" =>
        /\ LET nodes == Nodes(tree)
           IN  \A i \in 1..Len(nodes) : nodes[i].node.path = JoinSlash(nodes[i].names)
        /\ SameBag(PathFieldEntries(tree), files)

\* The levels of a forest: the root level and the children of every directory,
\* each with the names leading to it.
Levels(forest) ==
    LET dirs == SelectDirs(Nodes(forest))
    IN  <<[names |-> <<>>, nodes |-> forest]>>
        \o [k \in 1..Len(dirs) |-> [names |-> dirs[k].names, nodes |-> dirs[k].node.children]]

IsProperPrefix(c, parts) ==
    /\ Len(c) < Len(parts)
    /\ \A i \in 1..Len(c) : parts[i] = c[i]

\* The entries of fs that made the node `n` found under the names `names`.
Makers(fs, names, n) ==
    { k \in 1..Len(fs) :
        IF n.type = "dir"
        THEN IsProperPrefix(Append(names, n.name), Split(fs[k].path))
        ELSE Split(fs[k].path) = Append(names, n.name) /\ fs[k].size = n.size }

\* The entry that made sibling i of a level: for a directory the first entry
\* through it, for a file the r-th entry of that path and size, r counting the
\* equal file nodes up to i (repeated entries each make a node of their own).
MakerOf(fs, level, i) ==
    LET n == level.nodes[i]
        made == Makers(fs, level.names, n)
        r == IF n.type = "dir" THEN 1
             ELSE Cardinality({ j \in 1..i : level.nodes[j] = n })
    IN  IF Cardinality(made) < r THEN 0
        ELSE CHOOSE k \in made : Cardinality({ j \in made : j <= k }) = r

NoTwoDirsOfOneName(level) ==
    \A i, j \in 1..Len(level.nodes) :
        (/\ i # j
         /\ level.nodes[i].type = "dir"
         /\ level.nodes[j].type = "dir") => level.nodes[i].name # level.nodes[j].name

InFirstOccurrenceOrder(level) ==
    /\ \A i \in 1..Len(level.nodes) : MakerOf(files, level, i) # 0
    /\ \A i, j \in 1..Len(level.nodes) :
          i < j => MakerOf(files, level, i) < MakerOf(files, level, j)

ExampleFiles ==
    << [path |-> <<"a", "/", "b">>, size |-> 10],
       [path |-> <<"a", "/", "c">>, size |-> 20] >>

ExampleTree ==
    << [name |-> <<"a">>, path |-> <<"a">>, type |-> "dir", expanded |-> TRUE,
        children |->
          << [name |-> <<"b">>, path |-> <<"a", "/", "b">>, type |-> "file", size |-> 10],
             [name |-> <<"c">>, path |-> <<"a", "/", "c">>, type |-> "file", size |-> 20] >>] >>

\* C3: no level of a built forest holds two directory nodes of the same name
\* (entries sharing a prefix share the directory node), every directory is
\* created expanded, siblings stand in the order of their first occurrence in
\* the input, and [{a/b,10},{a/c,20}] builds one directory a holding b then c.
C3_DirectoriesDeduplicated ==
    phase # "input" =>
        /\ LET levels == Levels(tree)
           IN  \A l \in 1..Len(levels) :
                  /\ NoTwoDirsOfOneName(levels[l])
                  /\ InFirstOccurrenceOrder(levels[l])
        /\ phase = "built" =>
              LET dirs == SelectDirs(Nodes(tree))
              IN  \A i \in 1..Len(dirs) : dirs[i].node.expanded = TRUE
        /\ (phase = "built" /\ files = ExampleFiles) => tree = ExampleTree

C3_Witness ==
    /\ phase = "built"
    /\ Len(files) = 2
    /\ files[1].path = <<"a", "/", "b", "/", "c">>
    /\ files[2].path = <<"a", "/", "b">>
    /\ Cardinality(DirIndexes(tree)) = 2
    /\ Len(tree) = 1
    /\ Len(tree[1].children) = 2

\* C4: toggling the same path twice gives back the forest, for every target
\* path: a directory's, a file's, or one matching nothing.
C4_ToggleTwiceIsIdentity ==
    phase # "input" =>
        \A p \in TargetPaths(tree) : toggleDir(toggleDir(tree, p), p) = tree

C4_Witness ==
    /\ phase = "toggled"
    /\ \E i \in DirIndexes(tree) : Expanded(tree, i) = FALSE
    /\ \E i \in DirIndexes(tree) : Expanded(tree, i) = TRUE
    /\ FileIndexes(tree) # {}

\* A forest with the expanded flag of the directories of path p blanked.
RECURSIVE BlankExpanded(_, _)
BlankExpandedNode(node, p) ==
    IF node.type = "dir"
    THEN [name |-> node.name, path |-> node.path, type |-> node.type,
          expanded |-> IF node.path = p THEN TRUE ELSE node.expanded,
          children |-> BlankExpanded(node.children, p)]
    ELSE node

BlankExpanded(forest, p) ==
    [n \in 1..Len(forest) |-> BlankExpandedNode(forest[n], p)]

\* C5: toggleDir(forest, p) changes nothing but the expanded flag of a
\* directory of path p: nodes, names, paths, sizes, child order and every other
\* directory's flag stay; with no directory of path p (p a file's path
\* included) the forest comes back equal.
C5_ToggleChangesOnlyTheFlag ==
    phase # "input" =>
        \A p \in TargetPaths(tree) :
            /\ BlankExpanded(toggleDir(tree, p), p) = BlankExpanded(tree, p)
            /\ (toggleDir(tree, p) # tree) <=> HasDirAt(tree, p)

C5_Witness ==
    /\ phase = "toggled"
    /\ \E p \in NodePaths(tree) : ~HasDirAt(tree, p)
    /\ \E p \in NodePaths(tree) : HasDirAt(tree, p) /\ toggleDir(tree, p) # tree
    /\ \E i \in DirIndexes(tree) : Expanded(tree, i) = FALSE

(***************************************************************************)
(* Selection store (FileTree.jsx 52-58, 86-94, 122-125)                    *)
(*                                                                         *)
(* The JS object `selected` is a sequence of [key, value] pairs in         *)
(* insertion order, which is the order Object.keys and Object.values go by.*)
(***************************************************************************)
HasKey(m, p) == \E i \in 1..Len(m) : m[i].key = p

KeyIndex(m, p) == CHOOSE i \in 1..Len(m) : m[i].key = p

\* selected[p], read for its truth: a missing key reads undefined
IsSelected(m, p) == HasKey(m, p) /\ m[KeyIndex(m, p)].value

\* A merge that forgets the spread of the previous map.
setSelectedAlone(m, path, value) == <<[key |-> path, value |-> value]>>

\* { ...prev, [path]: value }: an existing key keeps its place
setSelected(m, path, value) ==
    IF HasKey(m, path)
    THEN [m EXCEPT ![KeyIndex(m, path)].value = value]
    ELSE Append(m, [key |-> path, value |-> value])

RECURSIVE FilterTrue(_)
FilterTrue(m) ==
    IF Len(m) = 0 THEN <<>>
    ELSE (IF IsSelected(m, m[1].key) THEN <<m[1].key>> ELSE <<>>) \o FilterTrue(Tail(m))

\* Object.keys(selected).filter(p => selected[p])
selectedPaths(m) == FilterTrue(m)

\* A test for any key at all, whatever its value.
hasSelectionAnyKey(m) == Len(m) > 0

\* Object.values(selected).some(Boolean)
hasSelection(m) == \E i \in 1..Len(m) : m[i].value

\* <button disabled={!hasSelection}> Generate Test Cases
GenerateEnabled == hasSelection(selected)

Init ==
    /\ files = <<>>
    /\ tree = <<>>
    /\ phase = "input"
    /\ selected = <<>>
    /\ lastSet = NeverSet
    /\ summaryCalls = <<>>
    /\ gwCall = GwIdle
    /\ gwHttp = <<>>
    /\ gwResult = NoResult
    /\ gwThrown = NothingThrown
    /\ gwAnswers = <<>>
    /\ ShellIdle

\* selectFile(path, value)
SelectFile(p, v) ==
    /\ selected' = setSelected(selected, p, v)
    /\ lastSet' = IF p \in DOMAIN lastSet
                  THEN [lastSet EXCEPT ![p] = IF v THEN "true" ELSE "false"]
                  ELSE lastSet
    /\ UNCHANGED <<summaryCalls, treeVars, gwVars, shellVars>>

\* A click on Generate Test Cases: handleSummarize
HandleSummarize ==
    /\ GenerateEnabled
    /\ Len(summaryCalls) < MaxCalls
    /\ LET paths == selectedPaths(selected)
       IN  IF Len(paths) = 0
           THEN UNCHANGED summaryCalls
           ELSE summaryCalls' =
                    Append(summaryCalls,
                           [paths |-> paths,
                            trueThen |-> { p \in SelPaths : lastSet[p] = "true" }])
    /\ UNCHANGED <<selected, lastSet, treeVars, gwVars, shellVars>>

Next ==
    \/ \E p \in SelPaths, v \in BOOLEAN : SelectFile(p, v)
    \/ HandleSummarize

Spec == Init /\ [][Next]_vars

(***************************************************************************)
(* Properties of the selection store (checked under Spec)                  *)
(***************************************************************************)
Range(seq) == { seq[i] : i \in 1..Len(seq) }

RoundTrip(m, x) == setSelected(setSelected(m, x, TRUE), x, FALSE)

OtherKeysKept(m, r, x) ==
    \A y \in SelPaths \ {x} :
        /\ HasKey(r, y) <=> HasKey(m, y)
        /\ IsSelected(r, y) <=> IsSelected(m, y)

\* C6 as stated: selecting then unselecting x gives x the selection state it
\* had in m (absent counting as false), whether x was absent, false or true,
\* and keeps every other key's value.
C6_RoundTripRestoresState ==
    \A x \in SelPaths :
        /\ IsSelected(RoundTrip(selected, x), x) <=> IsSelected(selected, x)
        /\ OtherKeysKept(selected, RoundTrip(selected, x), x)

\* C6 amended: selecting then unselecting x leaves x unselected, which is the
\* state x had in m when x was absent or false there, and keeps every other
\* key's value.
C6_RoundTripLeavesUnselected ==
    \A x \in SelPaths :
        /\ ~IsSelected(RoundTrip(selected, x), x)
        /\ ~IsSelected(selected, x) =>
              (IsSelected(RoundTrip(selected, x), x) <=> IsSelected(selected, x))
        /\ OtherKeysKept(selected, RoundTrip(selected, x), x)

C6_Witness ==
    /\ \E x \in SelPaths : ~HasKey(selected, x)
    /\ \E x \in SelPaths : HasKey(selected, x) /\ ~IsSelected(selected, x)
    /\ \E x \in SelPaths : IsSelected(selected, x)

\* C7: selectedPaths is the set of paths whose latest selectFile value is
\* true; hasSelection holds iff that set is non-empty; Generate Test Cases is
\* enabled iff hasSelection; every summary request carries exactly the paths
\* selected when it was made, and never an empty list.
C7_SelectedPathsAreLatestTrue ==
    LET latestTrue == { p \in SelPaths : lastSet[p] = "true" }
        paths == selectedPaths(selected)
    IN  /\ Range(paths) = latestTrue
        /\ Len(paths) = Cardinality(latestTrue)
        /\ hasSelection(selected) <=> latestTrue # {}
        /\ GenerateEnabled <=> hasSelection(selected)
        /\ \A c \in 1..Len(summaryCalls) :
              /\ Range(summaryCalls[c].paths) = summaryCalls[c].trueThen
              /\ Len(summaryCalls[c].paths) = Cardinality(summaryCalls[c].trueThen)
              /\ Len(summaryCalls[c].paths) > 0

C7_Witness ==
    /\ Len(summaryCalls) > 0
    /\ Len(summaryCalls[1].paths) = 2
    /\ \E p \in SelPaths : lastSet[p] = "false" /\ p \in summaryCalls[1].trueThen
    /\ ~hasSelection(selected)

(***************************************************************************)
(* JavaScript values, as far as lib/backend.js looks at them               *)
(***************************************************************************)
Undef == [t |-> "undefined"]
Null == [t |-> "null"]
Str(s) == [t |-> "string", s |-> s]
Num(n) == [t |-> "number", n |-> n]
Bool(b) == [t |-> "boolean", b |-> b]
Arr(items) == [t |-> "array", items |-> items]
Obj(fields) == [t |-> "object", f |-> fields]

\* v.k and v?.k: a missing property, and any property of a primitive, null or
\* undefined, reads undefined.
Get(v, k) == IF v.t = "object" /\ k \in DOMAIN v.f THEN v.f[k] ELSE Undef

\* ToBoolean
Truthy(v) ==
    CASE v.t = "undefined" -> FALSE
      [] v.t = "null" -> FALSE
      [] v.t = "string" -> v.s # <<>>
      [] v.t = "number" -> v.n # 0
      [] v.t = "boolean" -> v.b
      [] OTHER -> TRUE

\* a || b
OrElse(a, b) == IF Truthy(a) THEN a ELSE b

\* typeof v === 'object' (true of null and of arrays too)
TypeofObject(v) == v.t \in {"object", "array", "null"}

\* String(v) and `${v}` for the values that reach them here
ToStr(v) ==
    CASE v.t = "string" -> v.s
      [] v.t = "number" -> <<ToString(v.n)>>
      [] v.t = "boolean" -> IF v.b THEN <<"true">> ELSE <<"false">>
      [] v.t = "undefined" -> <<"undefined">>
      [] v.t = "null" -> <<"null">>
      [] OTHER -> <<"[object Object]">>

RECURSIVE TrimStart(_)
TrimStart(s) == IF Len(s) > 0 /\ s[1] = " " THEN TrimStart(Tail(s)) ELSE s

RECURSIVE TrimEnd(_)
TrimEnd(s) ==
    IF Len(s) > 0 /\ s[Len(s)] = " " THEN TrimEnd(SubSeq(s, 1, Len(s) - 1)) ELSE s

\* String.prototype.trim
Trim(s) == TrimEnd(TrimStart(s))

(***************************************************************************)
(* normalizeAxiosError (backend.js 134-176): the message of the Error made *)
(***************************************************************************)
NetworkMsg == <<"Network error: backend unreachable">>
UnknownMsg == <<"Unknown error occurred">>

\* `${status} ${statusText}` with the two defaults
StatusLine(response) ==
    ToStr(OrElse(Get(response, "status"), Str(<<"Unknown">>)))
    \o <<" ">>
    \o ToStr(OrElse(Get(response, "statusText"), Str(<<"Unknown Error">>)))

\* data.detail || data.message || data.error || data.msg
FirstDetail(data) ==
    OrElse(Get(data, "detail"),
           OrElse(Get(data, "message"), OrElse(Get(data, "error"), Get(data, "msg"))))

\* The branch of a truthy err.response (lines 136-153). An array body passes
\* the typeof test and has none of the four properties.
ResponseMessage(response) ==
    LET data == Get(response, "data")
        detail == FirstDetail(data)
    IN  IF Truthy(data) /\ TypeofObject(data)
        THEN IF Truthy(detail) /\ detail.t = "string" /\ Trim(detail.s) # <<>>
             THEN Trim(detail.s)
             ELSE StatusLine(response)
        ELSE IF Truthy(data) /\ data.t = "string" /\ Trim(data.s) # <<>>
             THEN Trim(data.s)
             ELSE StatusLine(response)

\* Lines 160-175: neither response nor request.
OtherMessage(err) ==
    IF Truthy(Get(err, "message")) THEN ToStr(Get(err, "message"))
    ELSE IF ~Truthy(err) THEN UnknownMsg
    ELSE IF ~TypeofObject(err) THEN ToStr(err)
    ELSE UnknownMsg

\* A normalisation that looks at err.request before err.response.
normalizeAxiosErrorRequestFirst(err) ==
    IF Truthy(Get(err, "request")) THEN NetworkMsg
    ELSE IF Truthy(Get(err, "response")) THEN ResponseMessage(Get(err, "response"))
    ELSE OtherMessage(err)

normalizeAxiosError(err) ==
    IF Truthy(Get(err, "response")) THEN ResponseMessage(Get(err, "response"))
    ELSE IF Truthy(Get(err, "request")) THEN NetworkMsg
    ELSE OtherMessage(err)

\* new Error(message), as a thrown value
ErrorObject(message) == Obj([message |-> Str(message)])

(***************************************************************************)
(* flattenFiles (backend.js 178-201)                                       *)
(***************************************************************************)
\* A full name that forgets the prefix.
FullNameOwn(pfx, node) == Get(node, "name")

\* const full = pfx ? `${pfx}/${node.name}` : node.name
FullName(pfx, node) ==
    IF Truthy(pfx) THEN Str(ToStr(pfx) \o <<"/">> \o ToStr(Get(node, "name")))
    ELSE Get(node, "name")

IsType(v, name) == v.t = "string" /\ v.s = <<name>>

\* The children handed to the recursive walk: node.children || []. A string
\* iterates to characters, which the walk skips; the responses drawn below
\* carry no other children that are not arrays.
ChildItems(node) ==
    LET c == OrElse(Get(node, "children"), Arr(<<>>)) IN IF c.t = "array" THEN c.items ELSE <<>>

RECURSIVE WalkFiles(_, _)
WalkFileNode(node, pfx) ==
    IF ~Truthy(node) \/ ~TypeofObject(node) THEN <<>>
    ELSE LET full == FullName(pfx, node)
             nodeType == OrElse(Get(node, "type"), Get(node, "file_type"))
         IN  IF IsType(nodeType, "file")
             THEN <<[path |-> OrElse(Get(node, "path"), full),
                     size |-> OrElse(Get(node, "size"), Num(0))]>>
             ELSE IF \/ IsType(nodeType, "dir")
                     \/ IsType(nodeType, "directory")
                     \/ Truthy(Get(node, "children"))
             THEN WalkFiles(ChildItems(node), full)
             ELSE <<>>

WalkFiles(items, pfx) ==
    IF Len(items) = 0 THEN <<>>
    ELSE WalkFileNode(items[1], pfx) \o WalkFiles(Tail(items), pfx)

flattenFiles(nodes) ==
    IF ~Truthy(nodes) \/ nodes.t # "array" THEN <<>> ELSE WalkFiles(nodes.items, Str(<<>>))

(***************************************************************************)
(* The gateway functions (backend.js 5-112)                                *)
(***************************************************************************)
FilesTimeout == 8000
ContentsTimeout == 15000
AiTimeout == 60000

\* Argument values: missing, empty and given.
StringArgs == { Undef, Null, Str(<<>>), Str(<<"x">>) }

ContentItem == Obj([path |-> Str(<<"a">>), content |-> Str(<<"code">>)])

ArrayArgs == { Undef, Null, Arr(<<>>), Arr(<<Str(<<"a">>)>>), Str(<<"a">>) }

ContentArgs == { Undef, Null, Arr(<<>>), Arr(<<ContentItem>>), Str(<<"a">>) }

BodyArgs == StringArgs \cup { ContentItem }

FrameworkArgs == { Undef, Str(<<"jest">>) }

Calls ==
    [fn : {"fetchRepoFiles"}, owner : StringArgs, repo : StringArgs]
    \cup [fn : {"fetchFileContents"}, owner : StringArgs, repo : StringArgs, paths : ArrayArgs]
    \cup [fn : {"summarizeTestsWithContent"}, fileContents : ContentArgs,
          framework : FrameworkArgs]
    \cup [fn : {"summarizeTests"}, owner : StringArgs, repo : StringArgs, paths : ArrayArgs,
          framework : FrameworkArgs]
    \cup [fn : {"generateCode"}, fileContent : BodyArgs, summary : StringArgs,
          framework : FrameworkArgs]
    \cup [fn : {"generateTest"}, fileName : StringArgs, fileContent : StringArgs,
          scenario : StringArgs]

OwnerRepoMsg == <<"Owner and repository name are required">>
PathsMsg == <<"File paths array is required and must not be empty">>
ContentsMsg == <<"File contents array is required and must not be empty">>

\* A test of the owner alone.
OwnerRepoMissingOwnerOnly(owner, repo) == ~Truthy(owner)

\* !owner || !repo
OwnerRepoMissing(owner, repo) == ~Truthy(owner) \/ ~Truthy(repo)

\* !paths || !Array.isArray(paths) || paths.length === 0
ArrayMissing(a) == ~Truthy(a) \/ a.t # "array" \/ Len(a.items) = 0

\* The message of the validation error a call throws before any request, or
\* the empty message when the arguments pass.
Validate(c) ==
    CASE c.fn = "fetchRepoFiles" ->
            IF OwnerRepoMissing(c.owner, c.repo) THEN OwnerRepoMsg ELSE <<>>
      [] c.fn \in {"fetchFileContents", "summarizeTests"} ->
            IF OwnerRepoMissing(c.owner, c.repo) THEN OwnerRepoMsg
            ELSE IF ArrayMissing(c.paths) THEN PathsMsg ELSE <<>>
      [] c.fn = "summarizeTestsWithContent" ->
            IF ArrayMissing(c.fileContents) THEN ContentsMsg ELSE <<>>
      [] c.fn = "generateCode" ->
            IF ~Truthy(c.fileContent) THEN <<"File content is required">>
            ELSE IF ~Truthy(c.summary) THEN <<"Summary is required">> ELSE <<>>
      [] c.fn = "generateTest" ->
            IF ~Truthy(c.fileName) THEN <<"File name is required">>
            ELSE IF ~Truthy(c.fileContent) THEN <<"File content is required">>
            ELSE IF ~Truthy(c.scenario) THEN <<"Scenario is required">> ELSE <<>>

\* framework = 'pytest' by default
Framework(c) == IF c.framework.t = "undefined" THEN Str(<<"pytest">>) ELSE c.framework

ContentsRequest(c) ==
    [method |-> "POST", endpoint |-> "/repos/file-contents", query |-> <<>>,
     body |-> Obj([owner |-> c.owner, repo |-> c.repo, file_paths |-> c.paths]),
     timeout |-> ContentsTimeout]

SummarizeRequest(fileContents, framework) ==
    [method |-> "POST", endpoint |-> "/ai/summarize-tests-with-content",
     query |-> <<framework>>, body |-> fileContents, timeout |-> AiTimeout]

\* The request a call with valid arguments issues first.
FirstRequest(c) ==
    CASE c.fn = "fetchRepoFiles" ->
            [method |-> "GET", endpoint |-> "/repos/{owner}/{repo}/files",
             query |-> <<c.owner, c.repo>>, body |-> Undef, timeout |-> FilesTimeout]
      [] c.fn \in {"fetchFileContents", "summarizeTests"} -> ContentsRequest(c)
      [] c.fn = "summarizeTestsWithContent" -> SummarizeRequest(c.fileContents, Framework(c))
      [] c.fn = "generateCode" ->
            [method |-> "POST", endpoint |-> "/ai/generate-code",
             query |-> <<c.summary, Framework(c)>>, body |-> c.fileContent,
             timeout |-> AiTimeout]
      [] c.fn = "generateTest" ->
            [method |-> "POST", endpoint |-> "/ai/generate-test", query |-> <<>>,
             body |-> Obj([file_name |-> c.fileName, file_content |-> c.fileContent,
                           scenario |-> c.scenario]),
             timeout |-> AiTimeout]

\* A payload that falls back to the empty array only.
ContentsPayloadFilesOnly(data) == OrElse(Get(data, "files"), Arr(<<>>))

\* res.data?.files || res.data || []
ContentsPayload(data) == OrElse(Get(data, "files"), OrElse(data, Arr(<<>>)))

\* summarizeTests is waiting for the inner fetchFileContents.
InContentFetch == gwCall.fn = "summarizeTests" /\ Len(gwHttp) = 1

(***************************************************************************)
(* What the HTTP layer can answer                                          *)
(***************************************************************************)
ErrFields == {"detail", "message", "error", "msg"}

FieldText ==
    [detail |-> "Repository not found", message |-> "bad request",
     error |-> "failure", msg |-> "oops"]

\* A field of an error body: absent, empty, blank, a text, a padded text, or
\* a list (the shape of a validation error's detail).
FieldValues(f) ==
    { Undef, Str(<<" ">>), Str(<<FieldText[f]>>), Arr(<<Str(<<"loc">>)>>) }
    \cup (IF f \in {"detail", "message"}
          THEN { Str(<<>>), Str(<<" ", FieldText[f], " ">>) } ELSE {})

ErrorBodies ==
    { Obj(b) : b \in [detail : FieldValues("detail"), message : FieldValues("message"),
                      error : FieldValues("error"), msg : FieldValues("msg")] }
    \cup { Undef, Null, Str(<<>>), Str(<<" ">>), Str(<<" ", "Internal Server Error">>),
           Arr(<<>>) }

StatusLines ==
    { [status |-> Num(404), statusText |-> Str(<<"Not Found">>)],
      [status |-> Num(500), statusText |-> Str(<<>>)] }

Responses ==
    { Obj([status |-> l.status, statusText |-> l.statusText, data |-> d]) :
        l \in StatusLines, d \in ErrorBodies }

RequestObject == Obj([method |-> Str(<<"sent">>)])

\* An axios rejection carrying a response (a status outside 2xx).
HttpErrors ==
    { Obj([response |-> r, request |-> RequestObject,
           message |-> Str(<<"Request failed with status code">>)]) : r \in Responses }
    \cup { Obj([response |-> r, message |-> Str(<<"Request failed with status code">>)]) :
             r \in { x \in Responses : Get(x, "data").t # "object" } }

\* An axios rejection without a response: network failure and timeout.
TransportErrors ==
    { Obj([request |-> RequestObject, message |-> Str(<<"Network Error">>)]),
      Obj([request |-> RequestObject, message |-> Str(<<"timeout exceeded">>),
           code |-> Str(<<"ECONNABORTED">>)]),
      Obj([request |-> RequestObject]) }

\* Any other value thrown inside the try block.
OtherThrown ==
    { Obj([message |-> Str(<<"boom">>)]), Obj([message |-> Str(<<>>)]), Obj(<<>>),
      Undef, Null, Str(<<>>), Str(<<"boom">>), Num(0), Num(42), Bool(TRUE), Bool(FALSE) }

ThrownValues == HttpErrors \cup TransportErrors \cup OtherThrown

NestedFilesBody ==
    Obj([files |->
          Arr(<< Obj([name |-> Str(<<"src">>), type |-> Str(<<"dir">>),
                      children |->
                        Arr(<< Obj([name |-> Str(<<"index.js">>), type |-> Str(<<"file">>),
                                    path |-> Str(<<"src", "/", "index.js">>),
                                    size |-> Num(1200)]) >>)]) >>)])

ContentsBody == Obj([files |-> Arr(<<ContentItem>>)])

SummariesBody ==
    Obj([summaries |-> Arr(<<Obj([id |-> Num(1), summary |-> Str(<<"checks login">>)])>>)])

\* res.data of a 2xx answer
SuccessBodies ==
    { Undef, Obj(<<>>), NestedFilesBody, ContentsBody, SummariesBody, Arr(<<ContentItem>>) }

\* The type a node of the files response declares: none, `type`, `file_type`
\* (the other spelling flattenFiles reads), or both.
TypeParts ==
    { <<>>,
      [type |-> Str(<<"file">>)], [type |-> Str(<<"dir">>)], [type |-> Str(<<"directory">>)],
      [type |-> Str(<<"symlink">>)],
      [file_type |-> Str(<<"file">>)], [file_type |-> Str(<<"directory">>)],
      [type |-> Str(<<"symlink">>), file_type |-> Str(<<"file">>)] }

PathParts == { <<>>, [path |-> Str(<<"lib", "/", "b.js">>)] }

SizeParts == { <<>>, [size |-> Num(7)], [size |-> Null] }

\* A node without children, named b.js.
LeafNodes ==
    { Obj([name |-> Str(<<"b.js">>)] @@ t @@ p @@ z) :
        t \in TypeParts, p \in PathParts, z \in SizeParts }

FixedLeaf == Obj([name |-> Str(<<"c.js">>), type |-> Str(<<"file">>), size |-> Num(3)])

ChildrenParts ==
    { <<>>, [children |-> Arr(<<>>)], [children |-> Arr(<<FixedLeaf, Null, Str(<<"x">>)>>)] }
    \cup { [children |-> Arr(<<n>>)] : n \in LeafNodes }
    \cup { [children |-> Arr(<<n, FixedLeaf>>)] : n \in LeafNodes }

\* A top-level node named src.
TopNodes ==
    { Obj([name |-> Str(<<"src">>)] @@ t @@ c) : t \in TypeParts, c \in ChildrenParts }

\* Three levels: a(dir) -> [ b(children only) -> [c.js], d.js ], then e.js
DeepFiles ==
    Arr(<< Obj([name |-> Str(<<"a">>), type |-> Str(<<"dir">>),
                children |->
                  Arr(<< Obj([name |-> Str(<<"b">>),
                              children |-> Arr(<<FixedLeaf>>)]),
                         Obj([name |-> Str(<<"d.js">>), type |-> Str(<<"file">>)]) >>)]),
           Obj([name |-> Str(<<"e.js">>), file_type |-> Str(<<"file">>),
                size |-> Num(5)]) >>)

\* res.data of a 2xx answer of the files endpoint
FileTreeBodies ==
    { Obj([files |-> Arr(<<n>>)]) : n \in TopNodes }
    \cup { Obj([files |-> Arr(<<FixedLeaf, n>>)]) : n \in LeafNodes }
    \cup { Obj([files |-> DeepFiles]), Obj([files |-> Arr(<<>>)]), Obj([files |-> Null]),
           Obj([files |-> Str(<<"none">>)]), Obj([repository |-> Str(<<"x">>)]) }

\* The bodies drawn for the call c
AnswerBodies(c) ==
    IF c.fn = "fetchRepoFiles" THEN SuccessBodies \cup FileTreeBodies ELSE SuccessBodies

(***************************************************************************)
(* Specification of the gateway functions                                  *)
(***************************************************************************)
InitGateway ==
    /\ files = <<>>
    /\ tree = <<>>
    /\ phase = "input"
    /\ selected = <<>>
    /\ lastSet = NeverSet
    /\ summaryCalls = <<>>
    /\ gwCall = GwIdle
    /\ gwHttp = <<>>
    /\ gwResult = NoResult
    /\ gwThrown = NothingThrown
    /\ gwAnswers = <<>>
    /\ ShellIdle

\* A gateway function is called: the validation, then the first request.
GwCall(c) ==
    /\ gwCall = GwIdle
    /\ gwCall' = c
    /\ IF Validate(c) # <<>>
       THEN /\ gwResult' = [kind |-> "throw", local |-> TRUE, message |-> Validate(c)]
            /\ gwHttp' = <<>>
       ELSE /\ gwResult' = [kind |-> "pending"]
            /\ gwHttp' = <<FirstRequest(c)>>
    /\ UNCHANGED <<gwThrown, gwAnswers, treeVars, selVars, shellVars>>

\* The awaited request rejects with err: the catch block throws the
\* normalised error. Inside summarizeTests the error of fetchFileContents,
\* already normalised there, goes through summarizeTests's own catch.
GwReject(err) ==
    /\ gwResult.kind = "pending"
    /\ gwThrown' = err
    /\ gwAnswers' = Append(gwAnswers, [ok |-> FALSE, err |-> err])
    /\ gwResult' =
          [kind |-> "throw", local |-> FALSE,
           message |->
              IF InContentFetch
              THEN normalizeAxiosError(ErrorObject(normalizeAxiosError(err)))
              ELSE normalizeAxiosError(err)]
    /\ UNCHANGED <<gwCall, gwHttp, treeVars, selVars, shellVars>>

\* The awaited request is answered 2xx with res.data = data.
GwResolve(data) ==
    /\ gwResult.kind = "pending"
    /\ gwAnswers' = Append(gwAnswers, [ok |-> TRUE, data |-> data])
    /\ IF InContentFetch
       THEN /\ gwHttp' = Append(gwHttp,
                                SummarizeRequest(ContentsPayload(data), Framework(gwCall)))
            /\ UNCHANGED gwResult
       ELSE /\ gwResult' =
                  [kind |-> "return",
                   value |->
                      CASE gwCall.fn = "fetchRepoFiles" ->
                              Arr(flattenFiles(OrElse(Get(data, "files"), Arr(<<>>))))
                        [] gwCall.fn = "fetchFileContents" -> ContentsPayload(data)
                        [] OTHER -> data]
            /\ UNCHANGED gwHttp
    /\ UNCHANGED <<gwCall, gwThrown, treeVars, selVars, shellVars>>

NextGateway ==
    \/ \E c \in Calls : GwCall(c)
    \/ \E err \in ThrownValues : GwReject(err)
    \/ \E data \in AnswerBodies(gwCall) : GwResolve(data)

SpecGateway == InitGateway /\ [][NextGateway]_vars

(***************************************************************************)
(* Properties of the gateway functions (checked under SpecGateway)         *)
(***************************************************************************)
\* A string argument that is missing or empty.
NoText(v) == v.t \in {"undefined", "null"} \/ (v.t = "string" /\ Len(v.s) = 0)

\* An array argument that is missing, no array, or empty.
NoItems(v) == v.t # "array" \/ Len(v.items) = 0

\* Some required argument of the call is missing or empty.
RequiredArgMissing(c) ==
    CASE c.fn = "fetchRepoFiles" -> NoText(c.owner) \/ NoText(c.repo)
      [] c.fn \in {"fetchFileContents", "summarizeTests"} ->
            NoText(c.owner) \/ NoText(c.repo) \/ NoItems(c.paths)
      [] c.fn = "summarizeTestsWithContent" -> NoItems(c.fileContents)
      [] c.fn = "generateCode" -> NoText(c.fileContent) \/ NoText(c.summary)
      [] c.fn = "generateTest" ->
            NoText(c.fileName) \/ NoText(c.fileContent) \/ NoText(c.scenario)
      [] OTHER -> FALSE

\* C8: a gateway function called with a required argument missing or empty
\* throws a local validation error and issues no HTTP request.
C8_InvalidArgsFailLocally ==
    (gwCall # GwIdle /\ RequiredArgMissing(gwCall)) =>
        /\ gwResult.kind = "throw"
        /\ gwResult.local
        /\ Len(gwResult.message) > 0
        /\ gwHttp = <<>>

C8_Witness ==
    /\ gwCall = [fn |-> "fetchRepoFiles", owner |-> Str(<<>>), repo |-> Str(<<"x">>)]
    /\ gwResult.kind = "throw"
    /\ gwHttp = <<>>

\* The call failed on a rejection that carries an HTTP response.
FailedWithResponse ==
    /\ gwResult.kind = "throw"
    /\ ~gwResult.local
    /\ gwThrown.t = "object"
    /\ "response" \in DOMAIN gwThrown.f

\* The fields of the response body that are present and non-empty: strings
\* with something other than blanks in them.
FilledFields(response) ==
    IF response.f.data.t # "object" THEN {}
    ELSE { k \in ErrFields :
             /\ k \in DOMAIN response.f.data.f
             /\ response.f.data.f[k].t = "string"
             /\ \E i \in 1..Len(response.f.data.f[k].s) : response.f.data.f[k].s[i] # " " }

\* A text with the blanks around it left out.
Core(v) ==
    LET inner == { i \in 1..Len(v) : v[i] # " " }
    IN  IF inner = {} THEN <<>>
        ELSE SubSeq(v, CHOOSE i \in inner : \A j \in inner : i <= j,
                       CHOOSE i \in inner : \A j \in inner : j <= i)

\* The text of a field, surrounding blanks aside.
FieldCore(response, k) == Core(response.f.data.f[k].s)

\* "{status} {statusText}" of the responses drawn here (a number, a text).
StatusText(response) ==
    <<ToString(response.f.status.n), " ">> \o response.f.statusText.s

\* C9: after a failure with an HTTP response the error's message is the value
\* of the body's detail, message, error or msg field whenever one of them is
\* present and non-empty, and is "{status} {statusText}" only when none is;
\* a 404 with {"detail": "Repository not found"} gives "Repository not found".
C9_MessageFromBodyField ==
    FailedWithResponse =>
        LET response == gwThrown.f.response
            filled == FilledFields(response)
        IN  /\ filled # {} => \E k \in filled : gwResult.message = FieldCore(response, k)
            /\ gwResult.message = StatusText(response) => filled = {}

\* The thrown value has a message of its own.
HasMessage(v) ==
    /\ v.t = "object"
    /\ "message" \in DOMAIN v.f
    /\ v.f.message.t = "string"
    /\ Len(v.f.message.s) > 0

HasProperty(v, k) == v.t = "object" /\ k \in DOMAIN v.f /\ v.f[k].t = "object"

\* What a failure with a response may say: a field's text, the text body, or
\* the status line (with its default for a missing status text).
ResponseDerived(response) ==
    { FieldCore(response, k) : k \in FilledFields(response) }
    \cup (IF response.f.data.t = "string" /\ Core(response.f.data.s) # <<>>
          THEN { Core(response.f.data.s) } ELSE {})
    \cup { StatusText(response), <<ToString(response.f.status.n), " ", "Unknown Error">> }

\* C10 as stated: without a response but with a request the message is the
\* network message; with neither it is the thrown value's message if it has
\* one and "Unknown error occurred" otherwise; a response takes precedence.
C10_NetworkAndUnknown ==
    (gwResult.kind = "throw" /\ ~gwResult.local) =>
        /\ (~HasProperty(gwThrown, "response") /\ HasProperty(gwThrown, "request")) =>
              gwResult.message = NetworkMsg
        /\ (~HasProperty(gwThrown, "response") /\ ~HasProperty(gwThrown, "request")) =>
              gwResult.message =
                  IF HasMessage(gwThrown) THEN gwThrown.f.message.s ELSE UnknownMsg
        /\ HasProperty(gwThrown, "response") =>
              gwResult.message \in ResponseDerived(gwThrown.f.response)

\* A thrown string, number or boolean that is truthy.
TruthyPrimitive(v) ==
    \/ v.t = "string" /\ Len(v.s) > 0
    \/ v.t = "number" /\ v.n # 0
    \/ v.t = "boolean" /\ v.b

PrimitiveText(v) ==
    CASE v.t = "string" -> v.s
      [] v.t = "number" -> <<ToString(v.n)>>
      [] v.t = "boolean" -> <<"true">>

\* C10 amended: as stated, but a thrown value without message that is a
\* truthy string, number or boolean gives its own string form.
C10_NetworkUnknownOrStringForm ==
    (gwResult.kind = "throw" /\ ~gwResult.local) =>
        /\ (~HasProperty(gwThrown, "response") /\ HasProperty(gwThrown, "request")) =>
              gwResult.message = NetworkMsg
        /\ (~HasProperty(gwThrown, "response") /\ ~HasProperty(gwThrown, "request")) =>
              gwResult.message =
                  IF HasMessage(gwThrown) THEN gwThrown.f.message.s
                  ELSE IF TruthyPrimitive(gwThrown) THEN PrimitiveText(gwThrown)
                  ELSE UnknownMsg
        /\ HasProperty(gwThrown, "response") =>
              gwResult.message \in ResponseDerived(gwThrown.f.response)

C10_Witness ==
    /\ gwResult.kind = "throw"
    /\ ~gwResult.local
    /\ gwThrown = Str(<<"boom">>)
    /\ gwResult.message = <<"boom">>
    /\ Len(gwHttp) = 1

(***************************************************************************)
(* checkBackendHealth (backend.js 114-132)                                 *)
(***************************************************************************)
ApiSuffix == <<"/", "a", "p", "i", "/", "v", "1">>

\* The length of '/api/v1', which slice(0, -7) cuts off.
ApiSuffixLen == 7

\* The values BASE can have: the default, a configured URL without the
\* suffix, one with a trailing slash after it, and the bare suffix.
Bases ==
    { DefaultBase,
      <<"http://backend:9000">>,
      <<"http://backend:9000">> \o ApiSuffix \o <<"/">>,
      ApiSuffix }

\* s.endsWith(suffix)
EndsWith(s, suffix) ==
    /\ Len(s) >= Len(suffix)
    /\ SubSeq(s, Len(s) - Len(suffix) + 1, Len(s)) = suffix

\* BASE.endsWith('/api/v1') ? BASE.slice(0, -7) : BASE
BaseRoot(base) ==
    IF EndsWith(base, ApiSuffix) THEN SubSeq(base, 1, Len(base) - ApiSuffixLen) ELSE base

\* The array `candidates`
Candidates(base) ==
    << BaseRoot(base) \o <<"/", "health">>,
       base \o <<"/", "repos", "/", "health">>,
       base \o <<"/", "ai", "/", "health">> >>

HealthTimeout == 3000

\* The request of one probe: axios.get(url, { timeout: 3000 })
Probe(url) == [url |-> url, timeout |-> HealthTimeout]

\* How axios settles a probe: it resolves on a 2xx status and rejects on any
\* other status, on a timeout and on a network failure.
ProbeOutcomes ==
    [kind : {"resolve"}, status : {200, 204}]
    \cup [kind : {"reject"}, status : {404, 500}]
    \cup [kind : {"reject"}, why : {"timeout", "network"}]

\* A test that takes every resolved probe for a healthy one.
ProbeOkAnyResolve(o) == o.kind = "resolve"

\* res.status === 200, reached only when the get resolved
ProbeOk(o) == o.kind = "resolve" /\ o.status = 200

InitHealth ==
    /\ files = <<>>
    /\ tree = <<>>
    /\ phase = "input"
    /\ selected = <<>>
    /\ lastSet = NeverSet
    /\ summaryCalls = <<>>
    /\ gwCall = GwIdle
    /\ gwHttp = <<>>
    /\ gwResult = NoResult
    /\ gwThrown = NothingThrown
    /\ gwAnswers = <<>>
    /\ hcBase \in Bases
    /\ hcUrls = <<>>
    /\ hcOutcomes = <<>>
    /\ hcResult = "idle"
    /\ LoadIdle
    /\ PageIdle

\* The call: the candidates are computed and the first probe is awaited.
HcStart ==
    /\ hcResult = "idle"
    /\ hcUrls' = <<Probe(Candidates(hcBase)[1])>>
    /\ hcResult' = "running"
    /\ UNCHANGED <<hcBase, hcOutcomes, treeVars, selVars, gwVars, ldVars, pgVars>>

\* The awaited probe settles with o: return true on a 200, otherwise (the
\* status test failed or the catch block ran) go on to the next candidate,
\* and return false after the last.
HcSettle(o) ==
    /\ hcResult = "running"
    /\ hcOutcomes' = Append(hcOutcomes, o)
    /\ IF ProbeOk(o)
       THEN /\ hcResult' = "true"
            /\ UNCHANGED hcUrls
       ELSE IF Len(hcUrls) < Len(Candidates(hcBase))
       THEN /\ hcUrls' = Append(hcUrls, Probe(Candidates(hcBase)[Len(hcUrls) + 1]))
            /\ UNCHANGED hcResult
       ELSE /\ hcResult' = "false"
            /\ UNCHANGED hcUrls
    /\ UNCHANGED <<hcBase, treeVars, selVars, gwVars, ldVars, pgVars>>

NextHealth ==
    \/ HcStart
    \/ \E o \in ProbeOutcomes : HcSettle(o)

SpecHealth == InitHealth /\ [][NextHealth]_vars

(***************************************************************************)
(* Properties of checkBackendHealth (checked under SpecHealth)             *)
(***************************************************************************)
\* The probe answered HTTP 200.
Answered200(o) == "status" \in DOMAIN o /\ o.status = 200

\* {root}/health, {base}/repos/health, {base}/ai/health, where root is the
\* base without a final /api/v1
ExpectedUrls ==
    LET root == IF \E r \in {SubSeq(hcBase, 1, n) : n \in 0..Len(hcBase)} :
                      hcBase = r \o ApiSuffix
                THEN CHOOSE r \in {SubSeq(hcBase, 1, n) : n \in 0..Len(hcBase)} :
                      hcBase = r \o ApiSuffix
                ELSE hcBase
    IN  << root \o <<"/", "health">>,
           hcBase \o <<"/", "repos", "/", "health">>,
           hcBase \o <<"/", "ai", "/", "health">> >>

\* C11: checkBackendHealth probes the three candidates one at a time in the
\* order {root}/health, {base}/repos/health, {base}/ai/health; it returns true
\* as soon as a probe answers 200 and probes no further, returns false exactly
\* when none of the three answered 200, and never raises.
C11_HealthProbesInOrder ==
    /\ Len(hcUrls) <= 3
    /\ \A i \in 1..Len(hcUrls) : hcUrls[i].url = ExpectedUrls[i]
    /\ Len(hcUrls) = Len(hcOutcomes) + (IF hcResult = "running" THEN 1 ELSE 0)
    /\ hcResult # "throw"
    /\ (hcResult = "true") <=>
          (\E i \in 1..Len(hcOutcomes) : Answered200(hcOutcomes[i]))
    /\ (\E i \in 1..Len(hcOutcomes) : Answered200(hcOutcomes[i])) =>
          /\ Answered200(hcOutcomes[Len(hcOutcomes)])
          /\ \A i \in 1..(Len(hcOutcomes) - 1) : ~Answered200(hcOutcomes[i])
    /\ (hcResult = "false") <=>
          /\ Len(hcOutcomes) = 3
          /\ \A i \in 1..3 : ~Answered200(hcOutcomes[i])
    /\ (hcResult = "running") => \A i \in 1..Len(hcOutcomes) : ~Answered200(hcOutcomes[i])

\* The first probe timed out and the second answered 200: true after two probes.
C11_Witness ==
    /\ hcBase = DefaultBase
    /\ hcOutcomes = << [kind |-> "reject", why |-> "timeout"],
                       [kind |-> "resolve", status |-> 200] >>
    /\ hcResult = "true"
    /\ Len(hcUrls) = 2
    /\ hcUrls[1].url = <<"http://localhost:8000", "/", "health">>

(***************************************************************************)
(* Properties of fetchRepoFiles's flattening (checked under SpecGateway)   *)
(***************************************************************************)
\* fetchRepoFiles returned, after a 2xx answer whose `files` is an array.
FilesReturned ==
    /\ gwCall.fn = "fetchRepoFiles"
    /\ gwResult.kind = "return"
    /\ Get(gwAnswers[1].data, "files").t = "array"

AnsweredFiles == Get(gwAnswers[1].data, "files").items

\* The type a node declares: its `type` field; with anySpelling, its
\* `file_type` field when it has no `type` field.
DeclaredType(n, anySpelling) ==
    IF anySpelling /\ Get(n, "type") = Undef THEN Get(n, "file_type") ELSE Get(n, "type")

IsFileNode(n, anySpelling) == DeclaredType(n, anySpelling) = Str(<<"file">>)

IsDirectoryNode(n, anySpelling) ==
    /\ ~IsFileNode(n, anySpelling)
    /\ \/ DeclaredType(n, anySpelling) \in {Str(<<"dir">>), Str(<<"directory">>)}
       \/ Get(n, "children").t = "array"

RECURSIVE JoinNames(_)
JoinNames(names) ==
    IF Len(names) = 1 THEN names[1].s
    ELSE names[1].s \o <<"/">> \o JoinNames(Tail(names))

\* The flat entry of a file node below the directories named `names`.
EntryOf(n, names) ==
    [path |-> IF Get(n, "path") # Undef THEN Get(n, "path")
              ELSE Str(JoinNames(Append(names, Get(n, "name")))),
     size |-> IF Get(n, "size").t = "number" THEN Get(n, "size") ELSE Num(0)]

\* One entry per file node reachable through directory nodes, in depth-first
\* document order.
RECURSIVE EntriesBelow(_, _, _)
EntriesBelow(items, names, anySpelling) ==
    IF Len(items) = 0 THEN <<>>
    ELSE LET n == items[1]
         IN  (IF n.t # "object" THEN <<>>
              ELSE IF IsFileNode(n, anySpelling) THEN <<EntryOf(n, names)>>
              ELSE IF IsDirectoryNode(n, anySpelling) /\ Get(n, "children").t = "array"
              THEN EntriesBelow(Get(n, "children").items, Append(names, Get(n, "name")),
                                anySpelling)
              ELSE <<>>)
             \o EntriesBelow(Tail(items), names, anySpelling)

\* {src(dir) -> index.js(file, path src/index.js, size 1200)} resolves to
\* [{path: "src/index.js", size: 1200}]
NestedExampleHolds ==
    (gwCall.fn = "fetchRepoFiles" /\ gwResult.kind = "return"
     /\ gwAnswers[1].data = NestedFilesBody)
    => gwResult.value =
          Arr(<<[path |-> Str(<<"src", "/", "index.js">>), size |-> Num(1200)]>>)

\* C12 (as stated): fetchRepoFiles returns, in depth-first document order,
\* exactly one entry per node whose `type` is exactly file and that is reached
\* through directory nodes (`type` dir/directory, or a non-file node with
\* children); other nodes are dropped; the path is the node's own or the
\* '/'-join of the names down to it, the size defaults to 0.
C12_OneEntryPerTypeFileNode ==
    /\ FilesReturned => gwResult.value = Arr(EntriesBelow(AnsweredFiles, <<>>, FALSE))
    /\ NestedExampleHolds

\* C12 (amended): the same, with a node's type read from `type` or, when the
\* node has no `type`, from `file_type`.
C12_OneEntryPerFileNode ==
    /\ FilesReturned => gwResult.value = Arr(EntriesBelow(AnsweredFiles, <<>>, TRUE))
    /\ NestedExampleHolds

\* The three-level response came back as a/b/c.js, a/d.js, e.js.
C12_Witness ==
    /\ FilesReturned
    /\ gwAnswers[1].data = Obj([files |-> DeepFiles])
    /\ gwResult.value =
          Arr(<< [path |-> Str(<<"a", "/", "b", "/", "c.js">>), size |-> Num(3)],
                 [path |-> Str(<<"a", "/", "d.js">>), size |-> Num(0)],
                 [path |-> Str(<<"e.js">>), size |-> Num(5)] >>)

(***************************************************************************)
(* Properties of the payload defaults (checked under SpecGateway)          *)
(***************************************************************************)
\* fn returned after a 2xx answer whose body has no `files` field.
ReturnedWithoutFiles(fn) ==
    /\ gwCall.fn = fn
    /\ gwResult.kind = "return"
    /\ Get(gwAnswers[1].data, "files") = Undef

\* C13 (as stated): on a 2xx answer whose body lacks `files`, fetchRepoFiles
\* and fetchFileContents both return an empty collection, never the raw body
\* or undefined.
C13_EmptyWhenFilesAbsent ==
    \A fn \in {"fetchRepoFiles", "fetchFileContents"} :
        ReturnedWithoutFiles(fn) => gwResult.value = Arr(<<>>)

\* C13 (amended): on such an answer fetchRepoFiles returns an empty
\* collection; fetchFileContents returns the response body itself when the
\* body is truthy and an empty collection when there is no body; neither
\* returns undefined.
C13_EmptyOrBodyWhenFilesAbsent ==
    /\ ReturnedWithoutFiles("fetchRepoFiles") => gwResult.value = Arr(<<>>)
    /\ ReturnedWithoutFiles("fetchFileContents") =>
          /\ gwResult.value # Undef
          /\ gwResult.value =
                IF Truthy(gwAnswers[1].data) THEN gwAnswers[1].data ELSE Arr(<<>>)

\* fetchFileContents was answered {summaries: [...]} and returned that body.
C13_Witness ==
    /\ ReturnedWithoutFiles("fetchFileContents")
    /\ gwAnswers[1].data = SummariesBody
    /\ gwResult.value = SummariesBody

(***************************************************************************)
(* summarizeTests against the composition of its two parts                 *)
(* (checked under SpecGateway)                                             *)
(***************************************************************************)
\* What a caller sees of a result: how it ended, and with what.
Seen(r) ==
    CASE r.kind = "throw" -> [kind |-> "throw", message |-> r.message]
      [] r.kind = "return" -> [kind |-> "return", value |-> r.value]
      [] OTHER -> [kind |-> r.kind]

\* One call of a single-request gateway function c, given the answers the
\* HTTP layer has made so far: the requests issued and the result.
SingleCall(c, answers) ==
    IF Validate(c) # <<>>
    THEN [http |-> <<>>, result |-> [kind |-> "throw", message |-> Validate(c)]]
    ELSE [http |-> <<FirstRequest(c)>>,
          result |->
             IF Len(answers) = 0 THEN [kind |-> "pending"]
             ELSE IF ~answers[1].ok
             THEN [kind |-> "throw", message |-> normalizeAxiosError(answers[1].err)]
             ELSE [kind |-> "return",
                   value |-> IF c.fn = "fetchFileContents"
                             THEN ContentsPayload(answers[1].data)
                             ELSE answers[1].data]]

\* fetchFileContents(owner, repo, paths), then, if it returned,
\* summarizeTestsWithContent(contents, framework)
Composite(c, answers) ==
    LET first == SingleCall([fn |-> "fetchFileContents", owner |-> c.owner, repo |-> c.repo,
                             paths |-> c.paths], answers)
    IN  IF first.result.kind # "return" THEN first
        ELSE LET second == SingleCall([fn |-> "summarizeTestsWithContent",
                                       fileContents |-> first.result.value,
                                       framework |-> c.framework], Tail(answers))
             IN  [http |-> first.http \o second.http, result |-> second.result]

\* summarizeTests was called with valid arguments.
SummarizeTestsRunning == gwCall.fn = "summarizeTests" /\ Validate(gwCall) = <<>>

\* C14: for every backend behaviour and valid arguments, summarizeTests issues
\* the same HTTP requests and ends with the same result or error message as
\* fetchFileContents followed by summarizeTestsWithContent; the summarize
\* request follows a successful content fetch only, and a failed content fetch
\* hands its error message to the caller unchanged.
C14_SummarizeTestsIsComposite ==
    SummarizeTestsRunning =>
        /\ gwHttp = Composite(gwCall, gwAnswers).http
        /\ Seen(gwResult) = Composite(gwCall, gwAnswers).result
        /\ Len(gwHttp) = 2 => gwAnswers[1].ok
        /\ (Len(gwAnswers) > 0 /\ ~gwAnswers[1].ok) =>
              /\ Len(gwHttp) = 1
              /\ Seen(gwResult) =
                    [kind |-> "throw", message |-> normalizeAxiosError(gwAnswers[1].err)]

(***************************************************************************)
(* The file tree view: loadFiles, the rendering of TreeNode and the clicks *)
(* (FileTree.jsx 17-47, 60-80, 96-127)                                     *)
(***************************************************************************)
\* The props owner and repo as typed: empty, blank, padded and plain.
OwnerProps == { <<>>, <<" ">>, <<" ", "o">>, <<"o">> }
RepoProps == { <<>>, <<"r">> }

\* The file lists fetchRepoFiles resolves to here: distinct well-formed paths.
ViewPaths == { <<"a", "/", "b", "/", "c">>, <<"a", "/", "c">> }

ViewLists ==
    { fs \in UNION { [1..n -> [path : ViewPaths, size : {10}]] : n \in 0..MaxEntries } :
        \A i, j \in 1..Len(fs) : i # j => fs[i].path # fs[j].path }

EnterBothMsg == <<"Please enter both owner and repository name">>
NoFilesMsg == <<"No files returned.">>
LoadFailedMsg == <<"Failed to load files">>

\* The messages a rejected fetchRepoFiles carries after a request.
LoadFailures == { NetworkMsg, <<"404 Not Found">>, <<"Repository not found">> }

\* A button that is never disabled.
LoadNeverDisabled == FALSE

\* <button onClick={loadFiles} disabled={loading}>
LoadDisabled == loading

\* fetchRepoFiles(owner.trim(), repo.trim()): the call, and the request it
\* issues when its own validation passes.
FilesCall(o, r) ==
    LET c == [fn |-> "fetchRepoFiles", owner |-> Str(Trim(o)), repo |-> Str(Trim(r))]
    IN  [call |-> c, http |-> IF Validate(c) = <<>> THEN <<FirstRequest(c)>> ELSE <<>>]

\* The rows TreeNode renders for a node: the node, then, for an expanded
\* directory, the rows of its children.
RECURSIVE RenderAll(_)
\* A rendering that shows the children of collapsed directories too.
RenderNodeAlways(node) ==
    <<node>> \o (IF node.type = "dir" THEN RenderAll(node.children) ELSE <<>>)

RenderNode(node) ==
    <<node>>
    \o (IF node.type = "dir" /\ node.expanded THEN RenderAll(node.children) ELSE <<>>)

RenderAll(forest) ==
    IF Len(forest) = 0 THEN <<>> ELSE RenderNode(forest[1]) \o RenderAll(Tail(forest))

\* tree.map(node => <TreeNode .../>)
Displayed == RenderAll(tree)

InitView ==
    /\ files = <<>>
    /\ tree = <<>>
    /\ phase = "input"
    /\ selected = <<>>
    /\ lastSet = NeverSet
    /\ summaryCalls = <<>>
    /\ gwCall = GwIdle
    /\ gwHttp = <<>>
    /\ gwResult = NoResult
    /\ gwThrown = NothingThrown
    /\ gwAnswers = <<>>
    /\ HealthIdle
    /\ PageIdle
    /\ loading = FALSE
    /\ error = <<>>
    /\ ldPending = <<>>

\* A click on Load Files with the props owner = o and repo = r: loadFiles up
\* to its await.
LoadFilesClick(o, r) ==
    /\ ~LoadDisabled
    /\ IF o = <<>> \/ r = <<>>
       THEN /\ error' = EnterBothMsg
            /\ UNCHANGED <<loading, ldPending>>
       ELSE /\ error' = <<>>
            /\ loading' = TRUE
            /\ ldPending' = Append(ldPending, FilesCall(o, r))
    /\ UNCHANGED <<treeVars, selVars, gwVars, hcVars, pgVars>>

\* The awaited fetchRepoFiles resolves to fs: the rest of the try block, and
\* the finally block.
LoadResolve(fs) ==
    /\ Len(ldPending) > 0
    /\ ldPending[1].http # <<>>
    /\ files' = fs
    /\ tree' = buildTree(fs)
    /\ phase' = "built"
    /\ error' = IF Len(buildTree(fs)) = 0 THEN NoFilesMsg ELSE error
    /\ loading' = FALSE
    /\ ldPending' = Tail(ldPending)
    /\ UNCHANGED <<selVars, gwVars, hcVars, pgVars>>

\* The awaited fetchRepoFiles rejects: at once with its validation error when
\* the trimmed owner is empty, otherwise with the normalised error of the
\* request. The catch block, and the finally block.
LoadReject(msg) ==
    /\ Len(ldPending) > 0
    /\ LET message == IF ldPending[1].http = <<>> THEN Validate(ldPending[1].call) ELSE msg
       IN  error' = IF message # <<>> THEN message ELSE LoadFailedMsg
    /\ loading' = FALSE
    /\ ldPending' = Tail(ldPending)
    /\ UNCHANGED <<treeVars, selVars, gwVars, hcVars, pgVars>>

\* A click on the i-th displayed row: a directory is toggled, a file takes
\* the opposite of its selection.
ClickNode(i) ==
    LET node == Displayed[i]
    IN  IF node.type = "dir"
        THEN ToggleDir(node.path)
        ELSE SelectFile(node.path, ~IsSelected(selected, node.path))

NextView ==
    \/ \E o \in OwnerProps, r \in RepoProps : LoadFilesClick(o, r)
    \/ \E fs \in ViewLists : LoadResolve(fs)
    \/ \E msg \in LoadFailures : LoadReject(msg)
    \/ \E i \in 1..Len(Displayed) : ClickNode(i)
    \/ HandleSummarize

SpecView == InitView /\ [][NextView]_vars

(***************************************************************************)
(* Properties of the file tree view (checked under SpecView)               *)
(***************************************************************************)
\* Every node of a forest, depth first, with whether all the directories
\* above it are expanded.
RECURSIVE WalkOpen(_, _)
WalkOpenNode(node, open) ==
    <<[node |-> node, open |-> open]>>
    \o (IF node.type = "dir" THEN WalkOpen(node.children, open /\ node.expanded) ELSE <<>>)

WalkOpen(forest, open) ==
    IF Len(forest) = 0 THEN <<>>
    ELSE WalkOpenNode(forest[1], open) \o WalkOpen(Tail(forest), open)

RECURSIVE OpenFiles(_)
OpenFiles(walk) ==
    IF Len(walk) = 0 THEN <<>>
    ELSE (IF walk[1].node.type = "file" /\ walk[1].open THEN <<walk[1].node>> ELSE <<>>)
         \o OpenFiles(Tail(walk))

RECURSIVE FileRows(_)
FileRows(rows) ==
    IF Len(rows) = 0 THEN <<>>
    ELSE (IF rows[1].type = "file" THEN <<rows[1]>> ELSE <<>>) \o FileRows(Tail(rows))

\* The last segment of a path.
BaseName(path) == Split(path)[Len(Split(path))]

\* The last load succeeded and no directory was toggled since.
JustLoaded == phase = "built"

\* C15: after a Load Files that returned a file list the displayed tree is
\* buildTree of the list with every directory expanded, so every returned
\* file's name is displayed; from then on a file is displayed exactly when
\* all of its ancestor directories are expanded.
C15_DisplayedFilesHaveOpenAncestors ==
    /\ JustLoaded =>
          /\ tree = buildTree(files)
          /\ \A i \in DirIndexes(tree) : Expanded(tree, i) = TRUE
          /\ Len(FileRows(Displayed)) = Len(files)
          /\ \A k \in 1..Len(files) :
                \E r \in 1..Len(Displayed) :
                    /\ Displayed[r].type = "file"
                    /\ Displayed[r].path = files[k].path
                    /\ Displayed[r].name = BaseName(files[k].path)
    /\ phase # "input" => FileRows(Displayed) = OpenFiles(WalkOpen(tree, TRUE))

\* a is collapsed over the expanded a/b: a/b/c and a/c are both hidden.
C15_Witness ==
    /\ phase = "toggled"
    /\ Len(files) = 2
    /\ HasDirAt(tree, <<"a", "/", "b">>)
    /\ \E i \in DirIndexes(tree) : Expanded(tree, i) = FALSE
    /\ \E i \in DirIndexes(tree) :
          Nodes(tree)[i].node.path = <<"a", "/", "b">> /\ Expanded(tree, i) = TRUE
    /\ Len(Displayed) = 1

\* The step completes a reload: the awaited file list arrived and the tree
\* was rebuilt from it.
ReloadStep == \E fs \in ViewLists : LoadResolve(fs)

Keys(m) == { m[i].key : i \in 1..Len(m) }

\* C16: the selection map is emptied when, and only when, the tree is
\* reloaded by Load Files: after a reload no path selected before it is still
\* reported as selected (by selectedPaths, the selected-file count or an
\* outgoing summary request), and no other action removes selection entries.
C16_ReloadEmptiesSelection ==
    [][ /\ ReloadStep =>
              /\ selected' = <<>>
              /\ \A p \in Range(selectedPaths(selected)) :
                    p \notin Range(selectedPaths(selected'))
        /\ ~ReloadStep => Keys(selected) \subseteq Keys(selected') ]_vars

\* The HTTP requests of the awaited fetchRepoFiles calls.
RECURSIVE OutstandingHttp(_)
OutstandingHttp(pending) ==
    IF Len(pending) = 0 THEN <<>> ELSE pending[1].http \o OutstandingHttp(Tail(pending))

\* The step is a click on Load Files with an empty owner or repo.
EmptyLoadClick ==
    \E o \in OwnerProps, r \in RepoProps : (o = <<>> \/ r = <<>>) /\ LoadFilesClick(o, r)

\* C18: the loading flag is true exactly while a fetchRepoFiles call started
\* by Load Files is outstanding; Load Files is disabled while it is true, so
\* at most one such call (and request) is outstanding; the flag is false again
\* when the call completes, resolved or rejected; a Load Files with an empty
\* owner or repo sets an error message, leaves the flag down and issues no
\* request.
C18_LoadingWhileOutstanding ==
    /\ [](loading <=> Len(ldPending) > 0)
    /\ [](Len(ldPending) <= 1 /\ Len(OutstandingHttp(ldPending)) <= 1)
    /\ [](loading => LoadDisabled)
    /\ [][ /\ Len(ldPending') < Len(ldPending) => (~loading' /\ ldPending' = <<>>)
           /\ EmptyLoadClick =>
                 /\ error' = EnterBothMsg
                 /\ ~loading /\ ~loading'
                 /\ ldPending = <<>> /\ ldPending' = <<>> ]_vars

\* A request for owner o, trimmed from the padded prop, is outstanding and the
\* flag is up, over a tree loaded before.
C18_Witness ==
    /\ loading
    /\ Len(ldPending) = 1
    /\ Len(ldPending[1].http) = 1
    /\ ldPending[1].http[1].query = <<Str(<<"o">>), Str(<<"r">>)>>
    /\ phase # "input"

(***************************************************************************)
(* The health ping effect of HomePage (app/page.jsx 17-26)                 *)
(***************************************************************************)
\* The most health checks one run of the model starts.
MaxPings == 5

PingInterval == 5000

\* A guard that lets every result through.
WriteAlways == TRUE

\* if (!cancelled) setConnected(ok)
WriteAllowed == ~pgCancelled

InitPage ==
    /\ files = <<>>
    /\ tree = <<>>
    /\ phase = "input"
    /\ selected = <<>>
    /\ lastSet = NeverSet
    /\ summaryCalls = <<>>
    /\ gwCall = GwIdle
    /\ gwHttp = <<>>
    /\ gwResult = NoResult
    /\ gwThrown = NothingThrown
    /\ gwAnswers = <<>>
    /\ HealthIdle
    /\ LoadIdle
    /\ pgView = "none"
    /\ pgCancelled = FALSE
    /\ pgTimer = NoTimer
    /\ pgInFlight = 0
    /\ connected = FALSE
    /\ pgStarted = 0
    /\ pgTicks = 0
    /\ pgDropped = {}
    /\ pgAtEnd = NotEnded

\* The effect runs when the page is created: cancelled = false, ping(),
\* setInterval(ping, 5000). ping runs up to its await.
PageMount ==
    /\ pgView = "none"
    /\ pgView' = "live"
    /\ pgCancelled' = FALSE
    /\ pgInFlight' = pgInFlight + 1
    /\ pgStarted' = pgStarted + 1
    /\ pgTimer' = [active |-> TRUE, period |-> PingInterval]
    /\ UNCHANGED <<connected, pgTicks, pgDropped, pgAtEnd, treeVars, selVars, gwVars, hcVars,
                   ldVars>>

\* The interval fires: ping() up to its await. A cleared interval never fires.
PageTick ==
    /\ pgTimer.active
    /\ pgStarted < MaxPings
    /\ pgTicks' = pgTicks + 1
    /\ pgInFlight' = pgInFlight + 1
    /\ pgStarted' = pgStarted + 1
    /\ UNCHANGED <<pgView, pgCancelled, pgTimer, connected, pgDropped, pgAtEnd, treeVars,
                   selVars, gwVars, hcVars, ldVars>>

\* An awaited checkBackendHealth resolves to ok (it never rejects): the rest
\* of ping.
PingSettle(ok) ==
    /\ pgInFlight > 0
    /\ pgInFlight' = pgInFlight - 1
    /\ IF WriteAllowed
       THEN /\ connected' = ok
            /\ UNCHANGED pgDropped
       ELSE /\ pgDropped' = pgDropped \cup {ok}
            /\ UNCHANGED connected
    /\ UNCHANGED <<pgView, pgCancelled, pgTimer, pgStarted, pgTicks, pgAtEnd, treeVars,
                   selVars, gwVars, hcVars, ldVars>>

\* The page view ends: the effect's cleanup, cancelled = true; clearInterval(id)
PageUnmount ==
    /\ pgView = "live"
    /\ pgView' = "ended"
    /\ pgCancelled' = TRUE
    /\ pgTimer' = NoTimer
    /\ pgAtEnd' = [ended |-> TRUE, connected |-> connected, started |-> pgStarted]
    /\ UNCHANGED <<pgInFlight, connected, pgStarted, pgTicks, pgDropped, treeVars, selVars,
                   gwVars, hcVars, ldVars>>

NextPage ==
    \/ PageMount
    \/ PageTick
    \/ \E ok \in BOOLEAN : PingSettle(ok)
    \/ PageUnmount

SpecPage == InitPage /\ [][NextPage]_vars

(***************************************************************************)
(* Properties of the health ping effect (checked under SpecPage)           *)
(***************************************************************************)
\* C17: a health check starts once when the page view is created and once
\* more on every 5 s timer tick while the view lives; when the view ends the
\* timer is cancelled, no further health check starts, and the result of a
\* check still in flight is never written to `connected`.
C17_PingsStopWithTheView ==
    /\ pgStarted = (IF pgView = "none" THEN 0 ELSE 1) + pgTicks
    /\ pgView = "live" <=> pgTimer.active
    /\ pgTimer.active => pgTimer.period = 5000
    /\ pgView = "ended" =>
          /\ pgTimer = NoTimer
          /\ pgStarted = pgAtEnd.started
          /\ connected = pgAtEnd.connected
    /\ pgView # "ended" => pgDropped = {}

\* The view ended while a check was in flight; the check then answered true
\* and `connected` stayed false.
C17_Witness ==
    /\ pgView = "ended"
    /\ pgTicks >= 1
    /\ TRUE \in pgDropped
    /\ connected = FALSE
    /\ pgAtEnd.connected = FALSE

====
